---- MODULE Spec2Model ----
(***************************************************************************)
(* The Streamlit script src/app.py as a state machine.                     *)
(*                                                                         *)
(* One script run is: main (login gate, sidebar, key check, dispatch),     *)
(* then the selected tool function up to its blocking HTTP call, then the  *)
(* continuation of that function once the call has returned or raised.     *)
(* st.session_state survives between runs; widget values are the inputs    *)
(* of a run.  Strings the code inspects character by character (strip,     *)
(* emptiness, concatenation) are sequences of one-character strings.       *)
(***************************************************************************)
EXTENDS Naturals, Sequences, FiniteSets

\* Send presses are offered only while the transcript has room for a
\* user message and its reply.
MaxHist == 5

VARIABLES
    keys,          \* the keys present in st.session_state
    logged_in,     \* st.session_state.logged_in
    api_key,       \* st.session_state.api_key
    chat_history,  \* st.session_state.chat_history
    username,      \* value of the Username input in this run
    password,      \* value of the Password input in this run
    tool,          \* value of the Select Tool box in this run
    text,          \* value of the selected tool's text widget in this run
    pressed,       \* the button whose press triggered this run
    pc,            \* where the script is
    shown,         \* the screen rendered by the latest run
    out,           \* what the run has put on the page (warning, error, result)
    reqs,          \* the HTTP requests issued by this run, in order
    http,          \* how the latest HTTP round trip of this run ended
    hist0          \* chat_history as it was when this run started

vars == <<keys, logged_in, api_key, chat_history, username, password, tool,
          text, pressed, pc, shown, out, reqs, http, hist0>>

session == <<keys, logged_in, api_key, chat_history>>

\* ---------------------------------------------------------------- inputs

Names == {"", "admin", "guest"}
ApiKeys == {<<>>, <<"k">>, <<"q">>}
Texts == {<<>>, <<" ">>, <<"a">>, <<" ", "a", " ">>}
Replies == {<<"r">>}
Tools == {"Image", "Text", "Voice", "Chat"}
Voices == {"alloy", "echo", "fable", "onyx", "nova", "shimmer"}
NoButton == "none"

\* ---------------------------------------------------------------- strings

IsSpace(c) == c = " "

RECURSIVE lstrip(_)
lstrip(s) ==
    IF s = <<>> THEN <<>>
    ELSE IF IsSpace(Head(s)) THEN lstrip(Tail(s)) ELSE s

RECURSIVE rstrip(_)
rstrip(s) ==
    IF s = <<>> THEN <<>>
    ELSE IF IsSpace(s[Len(s)]) THEN rstrip(SubSeq(s, 1, Len(s) - 1)) ELSE s

strip_omitted(s) == s

\* str.strip()
strip(s) == rstrip(lstrip(s))

\* ---------------------------------------------------------------- the page

NoOut == [kind |-> "none", msg |-> <<>>]
st_warning(m) == [kind |-> "warning", msg |-> <<m>>]
st_error(m) == [kind |-> "error", msg |-> m]
Result == [kind |-> "result", msg |-> <<>>]

\* st.error(f"OpenAI API Error: {e}")
ApiError(e) == st_error(<<"OpenAI API Error: ", e>>)

Buttons(screen) ==
    CASE screen = "login" -> {"Login"}
      [] screen = "Image" -> {"Generate Image"}
      [] screen = "Text" -> {"Summarize", "Rewrite"}
      [] screen = "Voice" -> {"Generate Voice"}
      [] screen = "Chat" -> {"Send"}
      [] OTHER -> {}

\* ---------------------------------------------------------------- HTTP

ImagesUrl == "https://api.openai.com/v1/images/generations"
ChatUrl == "https://api.openai.com/v1/chat/completions"
SpeechUrl == "https://api.openai.com/v1/audio/speech"
ImageUrl == "image_url"

Endpoint(t) ==
    CASE t = "Image" -> ImagesUrl
      [] t = "Text" -> ChatUrl
      [] t = "Voice" -> SpeechUrl
      [] t = "Chat" -> ChatUrl

Bearer == <<"B", "e", "a", "r", "e", "r", " ">>

HeadersWithoutKey(key) ==
    [Authorization |-> Bearer, ContentType |-> "application/json"]

Headers(key) ==
    [Authorization |-> Bearer \o key, ContentType |-> "application/json"]

call_openai(url, payload, key) ==
    [method |-> "POST", url |-> url, headers |-> Headers(key),
     payload |-> payload]

\* requests.get(image_url): no headers, no body, no timeout
requests_get(url) ==
    [method |-> "GET", url |-> url, headers |-> <<>>, payload |-> <<>>]

\* How requests.post(..., timeout=60) followed by raise_for_status and the
\* handler's parsing of the body can end.
PostOutcomes == {"ok", "conn_error", "timeout", "http_error", "bad_body"}
\* How requests.get(image_url) can end once it ends; it has no timeout.
GetOutcomes == {"ok", "conn_error", "http_error"}

\* call_openai turns every RequestException into RuntimeError(str(exc))
CallRaises(o) == o \in {"conn_error", "timeout", "http_error"}

\* str(exc) of the exception a failed round trip raises
ExcMsg(o) == o

\* ---------------------------------------------------------------- payloads

Msg(role, content) == [role |-> role, content |-> content]

ImagePayload(prompt) ==
    [model |-> "dall-e-3", prompt |-> prompt, n |-> 1, size |-> "1024x1024"]

SystemPrompt(action) ==
    IF action = "summarize"
    THEN <<"Summarize the following text.">>
    ELSE <<"Rewrite the following text to improve clarity.">>

TextPayload(action, user_text) ==
    [model |-> "gpt-3.5-turbo",
     messages |-> <<Msg("system", SystemPrompt(action)), Msg("user", user_text)>>]

SpeechPayload(txt, voice) == [model |-> "tts-1", input |-> txt, voice |-> voice]

ChatSystemMsg == Msg("system", <<"You are a helpful assistant.">>)

ChatMessagesLastOnly(history) == <<ChatSystemMsg, history[Len(history)]>>

\* messages = [system, *st.session_state.chat_history]
ChatMessages(history) == <<ChatSystemMsg>> \o history

ChatPayload(history) ==
    [model |-> "gpt-3.5-turbo", messages |-> ChatMessages(history)]

\* ---------------------------------------------------------------- login

CredentialsOkEither(u, p) == u = "admin" \/ p = "admin"

\* username == "admin" and password == "admin"
CredentialsOk(u, p) == u = "admin" /\ p = "admin"

\* login() returns True exactly when logged_in was set when it was entered;
\* every other path ends in "return False" or in the rerun.
login_returns == logged_in

MainNeverStops(ok) == FALSE

\* if not login(): st.stop()
MainStops(ok) == ~ok

\* ---------------------------------------------------------------- main

Init ==
    /\ keys = {}
    /\ logged_in = FALSE
    /\ api_key = <<>>
    /\ chat_history = <<>>
    /\ username = ""
    /\ password = ""
    /\ tool = "Image"
    /\ text = <<>>
    /\ pressed = NoButton
    /\ pc = "idle"
    /\ shown = "none"
    /\ out = NoOut
    /\ reqs = <<>>
    /\ http = "none"
    /\ hist0 = <<>>

HandlerOf(t) ==
    CASE t = "Image" -> "generate_image"
      [] t = "Text" -> "text_tools"
      [] t = "Voice" -> "tts_tool"
      [] t = "Chat" -> "chat_tool"

SidebarShown == shown \in {"keywarn"} \cup Tools

\* A widget returns what the user entered only if the previous run rendered
\* it; otherwise it returns its default.  A button reads True only in the
\* run its press triggered, and only a rendered button can be pressed.
WidgetValues(u, p, k, t, x, b) ==
    /\ b \in Buttons(shown) \cup {NoButton}
    /\ (pc = "rerun") => (b = NoButton)
    /\ (shown # "login") => (u = "" /\ p = "")
    /\ (~SidebarShown) => (k = api_key /\ t = "Image")
    /\ (shown # t) => (x = <<>>)
    /\ (b = "Send") => (Len(chat_history) + 2 <= MaxHist)

\* The start of a script run: login(), the sidebar, the key check and the
\* dispatch on the selected tool.
main(u, p, k, t, x, b) ==
    /\ pc \in {"idle", "rerun"}
    /\ WidgetValues(u, p, k, t, x, b)
    /\ pressed' = b
    /\ reqs' = <<>>
    /\ http' = "none"
    /\ hist0' = chat_history
    /\ UNCHANGED chat_history
    /\ IF ~logged_in /\ b = "Login" /\ CredentialsOk(u, p)
       THEN \* logged_in = True; st.experimental_rerun()
            /\ keys' = keys \cup {"logged_in"}
            /\ logged_in' = TRUE
            /\ username' = u /\ password' = p
            /\ pc' = "rerun"
            /\ shown' = "login"
            /\ out' = NoOut
            /\ UNCHANGED <<api_key, tool, text>>
       ELSE IF MainStops(login_returns)
       THEN \* login() returned False; st.stop()
            /\ keys' = keys \cup {"logged_in"}
            /\ username' = u /\ password' = p
            /\ pc' = "idle"
            /\ shown' = "login"
            /\ out' = IF b = "Login"
                      THEN st_error(<<"Invalid username or password">>)
                      ELSE NoOut
            /\ UNCHANGED <<logged_in, api_key, tool, text>>
       ELSE \* the sidebar
            /\ keys' = keys \cup {"logged_in", "api_key"}
            /\ username' = "" /\ password' = ""
            /\ api_key' = k
            /\ tool' = t
            /\ text' = x
            /\ UNCHANGED logged_in
            /\ IF k = <<>>
               THEN /\ out' = st_warning("Please enter your OpenAI API key in the sidebar to continue.")
                    /\ pc' = "idle"
                    /\ shown' = "keywarn"
               ELSE /\ out' = NoOut
                    /\ pc' = HandlerOf(t)
                    /\ shown' = t

\* ---------------------------------------------------------------- Image

generate_image ==
    /\ pc = "generate_image"
    /\ IF pressed = "Generate Image"
       THEN IF text = <<>>
            THEN /\ out' = st_warning("Please enter a prompt.")
                 /\ pc' = "idle"
                 /\ UNCHANGED reqs
            ELSE /\ reqs' = Append(reqs, call_openai(ImagesUrl, ImagePayload(text), api_key))
                 /\ pc' = "post"
                 /\ UNCHANGED out
       ELSE /\ pc' = "idle"
            /\ UNCHANGED <<out, reqs>>
    /\ UNCHANGED <<session, username, password, tool, text, pressed, shown, http, hist0>>

\* call_openai has returned or raised; on success the body is parsed and
\* the image is fetched.
generate_image_response(o) ==
    /\ pc = "post" /\ tool = "Image"
    /\ http' = o
    /\ IF CallRaises(o)
       THEN /\ out' = ApiError(ExcMsg(o))
            /\ pc' = "idle"
            /\ UNCHANGED reqs
       ELSE IF o = "bad_body"
       THEN \* response.json() or data["data"][0]["url"] raises
            /\ out' = ApiError(ExcMsg(o))
            /\ pc' = "idle"
            /\ UNCHANGED reqs
       ELSE /\ reqs' = Append(reqs, requests_get(ImageUrl))
            /\ pc' = "get"
            /\ UNCHANGED out
    /\ UNCHANGED <<session, username, password, tool, text, pressed, shown, hist0>>

\* requests.get(image_url) has returned or raised.  Its status is not
\* looked at: .content of a non-2xx answer goes to st.image like an image.
\* What st.image does with bytes that are no image is the library's
\* choice: it draws them (renders) or raises.
generate_image_download(o, renders) ==
    /\ pc = "get"
    /\ http' = o
    /\ (o # "http_error") => renders
    /\ out' = IF o = "conn_error" THEN ApiError(ExcMsg(o))
              ELSE IF renders THEN Result
              ELSE ApiError("cannot identify image")
    /\ pc' = "idle"
    /\ UNCHANGED <<session, username, password, tool, text, pressed, shown, reqs, hist0>>

\* ---------------------------------------------------------------- Text

text_tools ==
    /\ pc = "text_tools"
    /\ LET action == CASE pressed = "Summarize" -> "summarize"
                       [] pressed = "Rewrite" -> "rewrite"
                       [] OTHER -> "None"
       IN IF action # "None" /\ strip(text) # <<>>
          THEN /\ reqs' = Append(reqs, call_openai(ChatUrl, TextPayload(action, text), api_key))
               /\ pc' = "post"
          ELSE /\ pc' = "idle"
               /\ UNCHANGED reqs
    /\ UNCHANGED <<session, username, password, tool, text, pressed, shown, out, http, hist0>>

text_tools_response_retry(o) ==
    /\ pc = "post" /\ tool = "Text"
    /\ http' = o
    /\ IF CallRaises(o) /\ Len(reqs) = 1
       THEN /\ reqs' = Append(reqs, reqs[1])
            /\ pc' = "post"
            /\ UNCHANGED out
       ELSE /\ out' = IF CallRaises(o) \/ o = "bad_body" THEN ApiError(ExcMsg(o)) ELSE Result
            /\ pc' = "idle"
            /\ UNCHANGED reqs
    /\ UNCHANGED <<session, username, password, tool, text, pressed, shown, hist0>>

text_tools_response(o) ==
    /\ pc = "post" /\ tool = "Text"
    /\ http' = o
    /\ out' = IF CallRaises(o) \/ o = "bad_body" THEN ApiError(ExcMsg(o)) ELSE Result
    /\ pc' = "idle"
    /\ UNCHANGED <<session, username, password, tool, text, pressed, shown, reqs, hist0>>

\* ---------------------------------------------------------------- Voice

tts_tool(voice) ==
    /\ pc = "tts_tool"
    /\ IF pressed = "Generate Voice"
       THEN IF strip(text) = <<>>
            THEN /\ out' = st_warning("Please enter text.")
                 /\ pc' = "idle"
                 /\ UNCHANGED reqs
            ELSE /\ reqs' = Append(reqs, call_openai(SpeechUrl, SpeechPayload(text, voice), api_key))
                 /\ pc' = "post"
                 /\ UNCHANGED out
       ELSE /\ pc' = "idle"
            /\ UNCHANGED <<out, reqs>>
    /\ UNCHANGED <<session, username, password, tool, text, pressed, shown, http, hist0>>

\* response.content is played as it is: a 2xx body has no field to miss.
tts_tool_response(o) ==
    /\ pc = "post" /\ tool = "Voice"
    /\ o # "bad_body"
    /\ http' = o
    /\ out' = IF CallRaises(o) THEN ApiError(ExcMsg(o)) ELSE Result
    /\ pc' = "idle"
    /\ UNCHANGED <<session, username, password, tool, text, pressed, shown, reqs, hist0>>

\* ---------------------------------------------------------------- Chat

chat_tool ==
    /\ pc = "chat_tool"
    /\ keys' = keys \cup {"chat_history"}
    /\ IF pressed = "Send" /\ strip(text) # <<>>
       THEN /\ chat_history' = Append(chat_history, Msg("user", text))
            /\ reqs' = Append(reqs, call_openai(ChatUrl, ChatPayload(chat_history'), api_key))
            /\ pc' = "post"
       ELSE /\ pc' = "idle"
            /\ UNCHANGED <<chat_history, reqs>>
    /\ UNCHANGED <<logged_in, api_key, username, password, tool, text, pressed, shown, out, http, hist0>>

chat_tool_response_rollback(o, reply) ==
    /\ pc = "post" /\ tool = "Chat"
    /\ http' = o
    /\ IF CallRaises(o) \/ o = "bad_body"
       THEN /\ out' = ApiError(ExcMsg(o))
            /\ chat_history' = SubSeq(chat_history, 1, Len(chat_history) - 1)
       ELSE /\ out' = Result
            /\ chat_history' = Append(chat_history, Msg("assistant", reply))
    /\ pc' = "idle"
    /\ UNCHANGED <<keys, logged_in, api_key, username, password, tool, text, pressed, shown, reqs, hist0>>

chat_tool_response_reply_on_error(o, reply) ==
    /\ pc = "post" /\ tool = "Chat"
    /\ http' = o
    /\ out' = IF CallRaises(o) \/ o = "bad_body" THEN ApiError(ExcMsg(o)) ELSE Result
    /\ chat_history' = Append(chat_history, Msg("assistant", reply))
    /\ pc' = "idle"
    /\ UNCHANGED <<keys, logged_in, api_key, username, password, tool, text, pressed, shown, reqs, hist0>>

\* On success the reply is appended; on any exception only the error is
\* shown.  The transcript is then written to the page.
chat_tool_response(o, reply) ==
    /\ pc = "post" /\ tool = "Chat"
    /\ http' = o
    /\ IF CallRaises(o) \/ o = "bad_body"
       THEN /\ out' = ApiError(ExcMsg(o))
            /\ UNCHANGED chat_history
       ELSE /\ out' = Result
            /\ chat_history' = Append(chat_history, Msg("assistant", reply))
    /\ pc' = "idle"
    /\ UNCHANGED <<keys, logged_in, api_key, username, password, tool, text, pressed, shown, reqs, hist0>>

\* ---------------------------------------------------------------- system

\* The values the widgets can hand to a run (see WidgetValues).
LoginInputs == IF shown = "login" THEN Names ELSE {""}
KeyInputs == IF SidebarShown THEN ApiKeys ELSE {api_key}
ToolInputs == IF SidebarShown THEN Tools ELSE {"Image"}
TextInputs(t) == IF shown = t THEN Texts ELSE {<<>>}

Run == \E b \in Buttons(shown) \cup {NoButton}, u \in LoginInputs,
          p \in LoginInputs, k \in KeyInputs, t \in ToolInputs :
          \E x \in TextInputs(t) : main(u, p, k, t, x, b)

ImageResponse == \E o \in PostOutcomes : generate_image_response(o)
ImageDownload == \E o \in GetOutcomes, renders \in BOOLEAN : generate_image_download(o, renders)
TextResponse == \E o \in PostOutcomes : text_tools_response(o)
Voice == \E v \in Voices : tts_tool(v)
VoiceResponse == \E o \in PostOutcomes : tts_tool_response(o)
ChatResponse == \E o \in PostOutcomes, r \in Replies : chat_tool_response(o, r)

Next ==
    \/ Run
    \/ generate_image
    \/ ImageResponse
    \/ ImageDownload
    \/ text_tools
    \/ TextResponse
    \/ Voice
    \/ VoiceResponse
    \/ chat_tool
    \/ ChatResponse

Spec == Init /\ [][Next]_vars

\* The script runs to the next blocking call without waiting for anyone,
\* and requests.post(timeout=60) returns or raises.  Nothing makes
\* requests.get return: it has no timeout and the server may stay silent.
FairSpec ==
    /\ Spec
    /\ WF_vars(generate_image)
    /\ WF_vars(text_tools)
    /\ WF_vars(Voice)
    /\ WF_vars(chat_tool)
    /\ WF_vars(ImageResponse)
    /\ WF_vars(TextResponse)
    /\ WF_vars(VoiceResponse)
    /\ WF_vars(ChatResponse)

\* ---------------------------------------------------------------- properties

HandlerPcs == {"generate_image", "text_tools", "tts_tool", "chat_tool"}
ToolButtons == UNION {Buttons(t) : t \in Tools}
Failed == http \notin {"none", "ok"}
AllSpaces(s) == \A i \in DOMAIN s : s[i] = " "
IsPrefix(a, b) == Len(a) <= Len(b) /\ SubSeq(b, 1, Len(a)) = a
Posts == {i \in DOMAIN reqs : reqs[i].method = "POST"}
Gets == {i \in DOMAIN reqs : reqs[i].method = "GET"}

\* The required fields of the run in the state are blank: the key is the
\* empty string, or the Image prompt is the empty string, or the text of
\* another tool is empty once its whitespace is trimmed.
Blank ==
    \/ api_key = <<>>
    \/ tool = "Image" /\ text = <<>>
    \/ tool # "Image" /\ AllSpaces(text)

\* C1: while logged_in is false no tool function is entered, no HTTP
\* request is issued and the sidebar is not reached: main stops the run
\* right after login() returns False.
C1_NoToolBeforeLogin ==
    (pc \in HandlerPcs \cup {"post", "get"} \/ reqs # <<>> \/ SidebarShown)
        => logged_in

C1_Witness ==
    /\ ~logged_in
    /\ pc = "idle"
    /\ pressed = "Login"
    /\ username = "admin" /\ password = "guest"
    /\ out.kind = "error"

\* C2 as stated: every HTTP request of the run carries the header
\* Authorization = "Bearer " + api_key.
C2_EveryRequestBearer ==
    \A i \in DOMAIN reqs :
        /\ "Authorization" \in DOMAIN reqs[i].headers
        /\ reqs[i].headers.Authorization = Bearer \o api_key

\* C2 amended: every POST (every call_openai call) carries Authorization =
\* "Bearer " + api_key with the session's key unchanged; the GET of the
\* image URL carries no header at all.
C2_EveryPostBearer ==
    /\ \A i \in Posts : reqs[i].headers.Authorization = Bearer \o api_key
    /\ \A i \in Gets : DOMAIN reqs[i].headers = {}

C2_Witness ==
    /\ pc = "get"
    /\ api_key = <<"q">>
    /\ Posts = {1} /\ Gets = {2}

\* C3 as stated: at most one HTTP request is issued per button press.
C3_AtMostOneRequest == Len(reqs) <= 1

\* C3 amended: a press issues at most one POST, first, to the endpoint of
\* the pressed button's tool, and never repeats it; the only other request
\* is the single GET of the image URL that Generate Image issues after its
\* POST; a run without a press issues nothing.
C3_OnePostPerPress ==
    /\ Posts \subseteq {1}
    /\ Gets \subseteq {2}
    /\ \A i \in Posts : reqs[i].url = Endpoint(tool) /\ pressed \in Buttons(tool)
    /\ \A i \in Gets : tool = "Image" /\ Posts = {1} /\ reqs[i].url = ImageUrl
    /\ (tool # "Image") => (Len(reqs) <= 1)
    /\ (pressed = NoButton) => (reqs = <<>>)

C3_Witness ==
    /\ pc = "idle"
    /\ Len(reqs) = 2
    /\ out.kind = "result"

\* C4: when a step of the HTTP round trip has failed (connection error,
\* timeout, non-2xx status, body without the expected fields), the run ends
\* with an error on the page and no result rendered.
C4_FailureShowsError ==
    (pc = "idle" /\ Failed) => (out.kind = "error")

\* C5: every button press terminates: a run that has entered a tool
\* function eventually ends.
C5_EveryPressTerminates ==
    (pc \in HandlerPcs \cup {"post", "get"}) ~> (pc = "idle")

\* C6 as stated: a POST is issued only with the required fields non-empty,
\* and a press with a blank required field issues no request and leaves the
\* session's logged_in, api_key and chat_history as they were.
C6_BlankPressChangesNothing ==
    [][ /\ (Len(reqs') > Len(reqs) /\ reqs'[Len(reqs')].method = "POST")
            => ~Blank
        /\ (pressed' \in ToolButtons /\ Blank')
            => /\ reqs' = <<>>
               /\ <<logged_in, api_key, chat_history>>' = <<logged_in, api_key, chat_history>>
      ]_vars

\* C6 amended: a POST is issued only with the required fields non-empty,
\* and a press with a blank required field issues no request and leaves
\* logged_in and chat_history as they were; api_key is then only what main
\* copied from the sidebar input.
C6_BlankPressNoRequest ==
    [][ /\ (Len(reqs') > Len(reqs) /\ reqs'[Len(reqs')].method = "POST")
            => ~Blank
        /\ (pressed' \in ToolButtons /\ Blank')
            => /\ reqs' = <<>>
               /\ <<logged_in, chat_history>>' = <<logged_in, chat_history>>
               /\ (api_key' # api_key) => (pc \in {"idle", "rerun"})
      ]_vars

C6_Witness ==
    /\ pc = "idle"
    /\ pressed = "Generate Voice"
    /\ tool = "Voice"
    /\ api_key # <<>>
    /\ text = <<" ">>
    /\ out.kind = "warning"

LoginStep ==
    /\ (~logged_in /\ logged_in')
          => (pressed' = "Login" /\ username' = "admin" /\ password' = "admin")
    /\ (~logged_in /\ pressed' = "Login" /\ ~(username' = "admin" /\ password' = "admin"))
          => (~logged_in' /\ out' = st_error(<<"Invalid username or password">>))
    /\ logged_in => logged_in'

\* C7: logged_in is false at the start and becomes true only in a run
\* triggered by a Login press with username "admin" and password "admin";
\* a Login press with other credentials leaves it false and shows an
\* error; once true it is never false again.
C7_LoginOnlyByAdmin == ~logged_in /\ [][LoginStep]_vars

C7_Witness ==
    /\ logged_in
    /\ pc = "rerun"
    /\ username = "admin" /\ password = "admin"

Alternates(h) ==
    /\ Len(h) % 2 = 0
    /\ \A i \in DOMAIN h : h[i].role = IF i % 2 = 1 THEN "user" ELSE "assistant"

\* C8 as stated: between button presses chat_history alternates user,
\* assistant, user, assistant, ... from a user message to an assistant
\* message.
C8_StrictAlternation == (pc = "idle") => Alternates(chat_history)

\* C8 amended: chat_history starts with a user message and every assistant
\* message directly follows a user message; a successful Send appends the
\* user message and the reply, a failed Send leaves exactly the new user
\* message appended.
C8_UserBeforeAssistant ==
    /\ (chat_history # <<>>) => (chat_history[1].role = "user")
    /\ \A i \in DOMAIN chat_history :
          (chat_history[i].role = "assistant")
              => (i > 1 /\ chat_history[i - 1].role = "user")
    /\ (pc = "idle" /\ tool = "Chat" /\ Failed)
          => (chat_history = Append(hist0, Msg("user", text)))
    /\ (pc = "idle" /\ tool = "Chat" /\ http = "ok")
          => (\E r \in Replies :
                chat_history = hist0 \o <<Msg("user", text), Msg("assistant", r)>>)

C8_Witness ==
    /\ pc = "idle"
    /\ tool = "Chat" /\ Failed
    /\ Len(chat_history) >= 2
    /\ chat_history[Len(chat_history)].role = "user"
    /\ chat_history[Len(chat_history) - 1].role = "user"

\* C9: the messages of a Send's POST body are the system message, then the
\* whole chat_history as it was before the press, then the new user
\* message; on success the reply is appended right after that user message.
C9_ChatBodyIsWholeHistory ==
    (tool = "Chat" /\ reqs # <<>>)
        => /\ reqs[1].payload.messages
                = <<ChatSystemMsg>> \o hist0 \o <<Msg("user", text)>>
           /\ (pc = "post") => (chat_history = Append(hist0, Msg("user", text)))
           /\ (pc = "idle" /\ http = "ok")
                => /\ Len(chat_history) = Len(hist0) + 2
                   /\ SubSeq(chat_history, 1, Len(hist0) + 1) = Append(hist0, Msg("user", text))
                   /\ chat_history[Len(chat_history)].role = "assistant"

C9_Witness ==
    /\ pc = "post"
    /\ tool = "Chat"
    /\ Len(hist0) = 3
    /\ hist0[1].role = "user" /\ hist0[2].role = "assistant" /\ hist0[3].role = "user"

\* C10: the Image, Text and Voice functions leave logged_in, api_key and
\* chat_history unchanged; the Chat function leaves logged_in and api_key
\* unchanged and only appends to chat_history, at most two entries per run;
\* api_key changes only in main.
C10_Frame ==
    [][ /\ (pc \in {"generate_image", "text_tools", "tts_tool"}
              \/ (pc \in {"post", "get"} /\ tool # "Chat"))
            => <<logged_in, api_key, chat_history>>' = <<logged_in, api_key, chat_history>>
        /\ (pc = "chat_tool" \/ (pc = "post" /\ tool = "Chat"))
            => /\ <<logged_in, api_key>>' = <<logged_in, api_key>>
               /\ IsPrefix(chat_history, chat_history')
               /\ IsPrefix(hist0, chat_history')
               /\ Len(chat_history') <= Len(hist0) + 2
        /\ (api_key' # api_key) => (pc \in {"idle", "rerun"} /\ logged_in)
      ]_vars

C10_Witness ==
    /\ pc = "idle"
    /\ tool = "Chat"
    /\ hist0 # <<>>
    /\ Len(chat_history) = Len(hist0) + 2

====
